---- MODULE Spec2Model ----
(***************************************************************************)
(* A model of the tag bot: the SQLite-backed tag store (database.py) and   *)
(* the command handlers of both command surfaces (bot.py).                 *)
(*                                                                         *)
(* Python values: None is <<>> and a present value x is <<x>>, so that     *)
(* None, the empty string and 0 are three different values.  SQL values    *)
(* are tagged with their storage class.  Messages are the strings the      *)
(* handlers build.                                                         *)
(***************************************************************************)
EXTENDS Integers, Sequences, FiniteSets, TLC

VARIABLES
    db,         \* the tags table: rowid -> row of SQL values
    maxIssued,  \* history: the largest id create_tag has returned so far
    op,         \* the operation that ran last
    req,        \* its arguments
    ret,        \* what the store call returned
    sent        \* the messages the handler sent for the request

vars == <<db, maxIssued, op, req, ret, sent>>

-----------------------------------------------------------------------------
(* Bounds *)

\* the largest rowid the store allocates in a run from the empty table
MaxId == 2

\* the largest number of rows of a table a single store operation is applied to
MaxStored == 2

\* the largest number of rows of a table a single listing or clearing is applied to
MaxRows == 3

-----------------------------------------------------------------------------
(* Python and SQL values *)

None == <<>>
Some(x) == <<x>>

NULL == <<"null">>

\* sqlite3 binds None as NULL, str as TEXT and int as INTEGER
adapt(storage_class, v) == IF v = None THEN NULL ELSE <<storage_class, v[1]>>

\* sqlite3 reads NULL back as None and TEXT / INTEGER as str / int
convert(s) == IF s = NULL THEN None ELSE Some(s[2])

\* SQL "a = b": NULL compares equal to nothing
sql_eq(a, b) == a /= NULL /\ b /= NULL /\ a = b

Tag(id, name, channel, scene, npc, level) ==
    [id |-> id, name |-> name, channel |-> channel,
     scene |-> scene, npc |-> npc, level |-> level]

\* a variant of row_to_tag that reads the scene and npc columns in the wrong
\* order
row_to_tag_swapped(t, id) ==
    Tag(id, convert(t[id].name)[1], convert(t[id].channel)[1],
        convert(t[id].npc), convert(t[id].scene), convert(t[id].level))

\* the column list of the SELECT statements and the Tag(...) built from a row
row_to_tag(t, id) ==
    Tag(id, convert(t[id].name)[1], convert(t[id].channel)[1],
        convert(t[id].scene), convert(t[id].npc), convert(t[id].level))

\* the parameter tuple of INSERT and UPDATE
bind_row(name, channel, scene, npc, level) ==
    [name |-> adapt("text", Some(name)), channel |-> adapt("text", Some(channel)),
     scene |-> adapt("text", scene), npc |-> adapt("text", npc),
     level |-> adapt("integer", level)]

Max(S) == CHOOSE m \in S : \A x \in S : x <= m

\* rowid of an INTEGER PRIMARY KEY column declared without AUTOINCREMENT:
\* one more than the largest rowid in the table, 1 for an empty table
lastrowid(t) == IF DOMAIN t = {} THEN 1 ELSE Max(DOMAIN t) + 1

\* the rows of a result set, in rowid order
RECURSIVE scan(_, _)
scan(t, ids) ==
    IF ids = {} THEN <<>>
    ELSE LET i == CHOOSE m \in ids : \A x \in ids : m <= x
         IN <<row_to_tag(t, i)>> \o scan(t, ids \ {i})

without(t, ids) == [i \in DOMAIN t \ ids |-> t[i]]

-----------------------------------------------------------------------------
(* Database *)

init_db == << >>

Database_create_tag(t, name, channel, scene, npc, level) ==
    LET id == lastrowid(t)
    IN [db  |-> t @@ (id :> bind_row(name, channel, scene, npc, level)),
        ret |-> Tag(id, name, channel, scene, npc, level)]

Database_get_tag(t, tag_id) ==
    IF tag_id \in DOMAIN t THEN Some(row_to_tag(t, tag_id)) ELSE None

Database_get_tags_by_channel(t, channel) ==
    scan(t, {i \in DOMAIN t : sql_eq(t[i].channel, adapt("text", Some(channel)))})

\* a variant of update_tag that tests the arguments for truth instead of
\* "is not None": a supplied "" or 0 leaves the field as it was
Database_update_tag_truthy(t, tag_id, name, channel, scene, npc, level) ==
    LET existing == Database_get_tag(t, tag_id)
        truthy(v, zero) == v /= None /\ v[1] /= zero
    IN IF existing = None THEN [db |-> t, ret |-> None]
       ELSE LET updated ==
                  Tag(tag_id,
                      IF truthy(name, "") THEN name[1] ELSE existing[1].name,
                      IF truthy(channel, "") THEN channel[1] ELSE existing[1].channel,
                      IF truthy(scene, "") THEN scene ELSE existing[1].scene,
                      IF truthy(npc, "") THEN npc ELSE existing[1].npc,
                      IF truthy(level, 0) THEN level ELSE existing[1].level)
            IN [db  |-> [t EXCEPT ![tag_id] =
                            bind_row(updated.name, updated.channel, updated.scene,
                                     updated.npc, updated.level)],
                ret |-> Some(updated)]

\* a variant of update_tag without the lookup of the existing record: the
\* UPDATE statement touches no row of a missing id, and the record built from
\* the arguments is returned all the same
Database_update_tag_unchecked(t, tag_id, name, channel, scene, npc, level) ==
    LET existing == IF tag_id \in DOMAIN t THEN row_to_tag(t, tag_id)
                    ELSE Tag(tag_id, "", "", None, None, None)
        updated ==
            Tag(tag_id,
                IF name /= None THEN name[1] ELSE existing.name,
                IF channel /= None THEN channel[1] ELSE existing.channel,
                IF scene /= None THEN scene ELSE existing.scene,
                IF npc /= None THEN npc ELSE existing.npc,
                IF level /= None THEN level ELSE existing.level)
    IN [db  |-> [i \in DOMAIN t |->
                    IF i = tag_id
                    THEN bind_row(updated.name, updated.channel, updated.scene,
                                  updated.npc, updated.level)
                    ELSE t[i]],
        ret |-> Some(updated)]

Database_update_tag(t, tag_id, name, channel, scene, npc, level) ==
    LET existing == Database_get_tag(t, tag_id)
    IN IF existing = None THEN [db |-> t, ret |-> None]
       ELSE LET updated ==
                  Tag(tag_id,
                      IF name /= None THEN name[1] ELSE existing[1].name,
                      IF channel /= None THEN channel[1] ELSE existing[1].channel,
                      IF scene /= None THEN scene ELSE existing[1].scene,
                      IF npc /= None THEN npc ELSE existing[1].npc,
                      IF level /= None THEN level ELSE existing[1].level)
            IN [db  |-> [t EXCEPT ![tag_id] =
                            bind_row(updated.name, updated.channel, updated.scene,
                                     updated.npc, updated.level)],
                ret |-> Some(updated)]

\* a variant of delete_tag that reports success whatever the row count
Database_delete_tag_always(t, tag_id) ==
    LET hit == {i \in DOMAIN t : i = tag_id}
    IN [db |-> without(t, hit), ret |-> Cardinality(hit) >= 0]

Database_delete_tag(t, tag_id) ==
    LET hit == {i \in DOMAIN t : i = tag_id}
    IN [db |-> without(t, hit), ret |-> Cardinality(hit) > 0]

\* a variant of delete_tags_by_scene that tests "not scene" instead of
\* "scene is None": the empty string selects the tags without scene
Database_delete_tags_by_scene_falsy(t, channel, scene) ==
    LET hit == IF scene = None \/ scene[1] = ""
               THEN {i \in DOMAIN t :
                        sql_eq(t[i].channel, adapt("text", Some(channel)))
                        /\ t[i].scene = NULL}
               ELSE {i \in DOMAIN t :
                        sql_eq(t[i].channel, adapt("text", Some(channel)))
                        /\ sql_eq(t[i].scene, adapt("text", scene))}
    IN [db |-> without(t, hit), ret |-> Cardinality(hit)]

Database_delete_tags_by_scene(t, channel, scene) ==
    LET hit == IF scene = None
               THEN {i \in DOMAIN t :
                        sql_eq(t[i].channel, adapt("text", Some(channel)))
                        /\ t[i].scene = NULL}
               ELSE {i \in DOMAIN t :
                        sql_eq(t[i].channel, adapt("text", Some(channel)))
                        /\ sql_eq(t[i].scene, adapt("text", scene))}
    IN [db |-> without(t, hit), ret |-> Cardinality(hit)]

Database_get_all_tags(t) == scan(t, DOMAIN t)

-----------------------------------------------------------------------------
(* Inputs *)

Names == {"a", "b"}
ChannelNames == {"general", "7"}

\* ctx.channel / interaction.channel: a guild text channel has a name, a
\* direct-message channel has none
Channels == {[name |-> Some("general"), id |-> 1], [name |-> None, id |-> 7]}

Levels == {None, Some(0)}
Scenes == {None, Some(""), Some("general")}
Npcs == {None, Some("Bob")}
NewLevels == {0}
NewNames == {"b"}
LatencyMs == {87}
Storage == {"ok", "unavailable"}

-----------------------------------------------------------------------------
(* bot.py: helpers *)

RECURSIVE join(_, _)
join(sep, parts) ==
    IF parts = <<>> THEN ""
    ELSE IF Len(parts) = 1 THEN parts[1]
    ELSE parts[1] \o sep \o join(sep, Tail(parts))

format_tag(tag) ==
    LET parts == <<"**" \o tag.name \o "**">>
                 \o (IF tag.level /= None
                     THEN <<"[Level: " \o ToString(tag.level[1]) \o "]">>
                     ELSE <<>>)
                 \o <<"(ID: " \o ToString(tag.id) \o ")">>
    IN join(" ", parts)

\* ctx.channel.name if hasattr(ctx.channel, 'name') else str(ctx.channel.id)
channel_name(channel) ==
    IF channel.name /= None THEN channel.name[1] ELSE ToString(channel.id)

\* a handler that ran to its send: the store afterwards, what the store call
\* returned, the one message sent
replied(t, r, msg) == [db |-> t, ret |-> r, sent |-> <<msg>>, error |-> None]

\* a handler whose store call raised before its send: nothing written (the
\* statement never committed), nothing sent
raised(t) ==
    [db |-> t, ret |-> None, sent |-> <<>>,
     error |-> Some([type |-> "CommandInvokeError",
                     text |-> "Command raised an exception: OperationalError: unable to open database file"])]

-----------------------------------------------------------------------------
(* bot.py: prefix commands *)

ping(t, latency_ms) ==
    replied(t, None, "Pong! Latency: " \o ToString(latency_ms) \o "ms")

add_tag(t, channel, name, scene, npc, level, storage) ==
    IF storage = "unavailable" THEN raised(t)
    ELSE LET r == Database_create_tag(t, name, channel_name(channel), scene, npc, level)
         IN replied(r.db, r.ret, "Created tag:\n" \o format_tag(r.ret))

\* a variant of get_tag that looks the id up among the tags of the invoking
\* channel only
get_tag_scoped(t, channel, tag_id, storage) ==
    IF storage = "unavailable" THEN raised(t)
    ELSE LET tag == Database_get_tag(t, tag_id)
         IN IF tag /= None /\ tag[1].channel = channel_name(channel)
            THEN replied(t, tag, format_tag(tag[1]))
            ELSE replied(t, None, "No tag found with ID " \o ToString(tag_id) \o ".")

get_tag(t, channel, tag_id, storage) ==
    IF storage = "unavailable" THEN raised(t)
    ELSE LET tag == Database_get_tag(t, tag_id)
         IN IF tag /= None THEN replied(t, tag, format_tag(tag[1]))
            ELSE replied(t, tag, "No tag found with ID " \o ToString(tag_id) \o ".")

delete_tag(t, channel, tag_id, storage) ==
    IF storage = "unavailable" THEN raised(t)
    ELSE LET r == Database_delete_tag(t, tag_id)
         IN IF r.ret THEN replied(r.db, r.ret, "Deleted tag " \o ToString(tag_id) \o ".")
            ELSE replied(r.db, r.ret, "No tag found with ID " \o ToString(tag_id) \o ".")

mod_status_level(t, channel, tag_id, level, storage) ==
    IF storage = "unavailable" THEN raised(t)
    ELSE LET r == Database_update_tag(t, tag_id, None, None, None, None, Some(level))
         IN IF r.ret /= None
            THEN replied(r.db, r.ret, "Updated tag:\n" \o format_tag(r.ret[1]))
            ELSE replied(r.db, r.ret, "No tag found with ID " \o ToString(tag_id) \o ".")

mod_tag_name(t, channel, tag_id, name, storage) ==
    IF storage = "unavailable" THEN raised(t)
    ELSE LET r == Database_update_tag(t, tag_id, Some(name), None, None, None, None)
         IN IF r.ret /= None
            THEN replied(r.db, r.ret, "Updated tag:\n" \o format_tag(r.ret[1]))
            ELSE replied(r.db, r.ret, "No tag found with ID " \o ToString(tag_id) \o ".")

clear_scene(t, channel, scene, storage) ==
    IF storage = "unavailable" THEN raised(t)
    ELSE LET r == Database_delete_tags_by_scene(t, channel_name(channel), scene)
             scene_display == IF scene /= None /\ scene[1] /= "" THEN scene[1]
                              ELSE "Default Scene"
         IN replied(r.db, r.ret,
                    "Cleared " \o ToString(r.ret) \o " tag(s) from **"
                    \o scene_display \o "**.")

-----------------------------------------------------------------------------
(* bot.py: the channel listing *)

\* Python str comparison is by code point; the code points of the labels used
codepoints(s) ==
    CASE s = "" -> <<>>
      [] s = "7" -> <<55>>
      [] s = "Bob" -> <<66, 111, 98>>
      [] s = "Cave" -> <<67, 97, 118, 101>>
      [] s = "Story Tags" -> <<83, 116, 111, 114, 121, 32, 84, 97, 103, 115>>
      [] s = "Zed" -> <<90, 101, 100>>
      [] s = "general" -> <<103, 101, 110, 101, 114, 97, 108>>

RECURSIVE seq_less(_, _)
seq_less(a, b) ==
    IF b = <<>> THEN FALSE
    ELSE IF a = <<>> THEN TRUE
    ELSE IF a[1] /= b[1] THEN a[1] < b[1]
    ELSE seq_less(Tail(a), Tail(b))

str_less(a, b) == seq_less(codepoints(a), codepoints(b))

\* a variant of the sort key without the "Story Tags" component: plain
\* lexical order
sort_key_less_plain(a, b) == str_less(a, b)

\* the sort key (x != "Story Tags", x), compared as Python compares tuples
sort_key_less(a, b) ==
    LET ka == (a /= "Story Tags")
        kb == (b /= "Story Tags")
    IN IF ka /= kb THEN kb ELSE str_less(a, b)

\* sorted(keys, key=...): insertion of each key into an ordered list
RECURSIVE sorted_npcs(_)
sorted_npcs(keys) ==
    IF keys = <<>> THEN <<>>
    ELSE LET rest == sorted_npcs(Tail(keys))
             before == SelectSeq(rest, LAMBDA k : ~ sort_key_less(keys[1], k))
             after == SelectSeq(rest, LAMBDA k : sort_key_less(keys[1], k))
         IN before \o <<keys[1]>> \o after

\* tag.scene or channel_name
scene_label(tag, channel) ==
    IF tag.scene /= None /\ tag.scene[1] /= "" THEN tag.scene[1] ELSE channel

\* tag.npc or "Story Tags"
npc_label(tag) ==
    IF tag.npc /= None /\ tag.npc[1] /= "" THEN tag.npc[1] ELSE "Story Tags"

\* the keys of a dict in insertion order: the labels in first-seen order
RECURSIVE first_seen(_)
first_seen(labels) ==
    IF labels = <<>> THEN <<>>
    ELSE LET front == first_seen(SubSeq(labels, 1, Len(labels) - 1))
             last == labels[Len(labels)]
         IN IF \E i \in 1 .. Len(front) : front[i] = last THEN front
            ELSE Append(front, last)

\* by_scene, with each scene's NPC keys sorted: the scenes in first-seen order,
\* under each its sub-groups, under each sub-group its tags in input order
by_scene(tags, channel) ==
    LET scenes == first_seen([i \in 1 .. Len(tags) |-> scene_label(tags[i], channel)])
        in_scene(s) == SelectSeq(tags, LAMBDA tag : scene_label(tag, channel) = s)
        npcs(s) == sorted_npcs(first_seen([i \in 1 .. Len(in_scene(s)) |->
                                               npc_label(in_scene(s)[i])]))
    IN [i \in 1 .. Len(scenes) |->
          [scene_name |-> scenes[i],
           npcs |-> [j \in 1 .. Len(npcs(scenes[i])) |->
                       [npc_name |-> npcs(scenes[i])[j],
                        npc_tags |-> SelectSeq(in_scene(scenes[i]),
                                       LAMBDA tag : npc_label(tag) = npcs(scenes[i])[j])]]]]

format_tags_by_scene(tags, channel) ==
    LET groups == by_scene(tags, channel)
        npc_section(n) ==
            "\t**" \o n.npc_name \o "**" \o "\n"
            \o join("\n", [k \in 1 .. Len(n.npc_tags) |->
                             "\t\t" \o format_tag(n.npc_tags[k])])
        section(g) ==
            "__**" \o g.scene_name \o "**__" \o "\n"
            \o join("\n", [j \in 1 .. Len(g.npcs) |-> npc_section(g.npcs[j])])
    IN join("\n\n", [i \in 1 .. Len(groups) |-> section(groups[i])])

list_tags(t, channel, storage) ==
    IF storage = "unavailable" THEN raised(t)
    ELSE LET tags == Database_get_tags_by_channel(t, channel_name(channel))
         IN IF tags = <<>> THEN replied(t, tags, "No tags in this channel.")
            ELSE replied(t, tags, format_tags_by_scene(tags, channel_name(channel)))

-----------------------------------------------------------------------------
(* bot.py: slash commands *)

slash_ping(t, latency_ms) ==
    replied(t, None, "Pong! Latency: " \o ToString(latency_ms) \o "ms")

slash_add_tag(t, channel, name, scene, npc, level, storage) ==
    IF storage = "unavailable" THEN raised(t)
    ELSE LET r == Database_create_tag(t, name, channel_name(channel), scene, npc, level)
         IN replied(r.db, r.ret, "Created tag:\n" \o format_tag(r.ret))

slash_list_tags(t, channel, storage) ==
    IF storage = "unavailable" THEN raised(t)
    ELSE LET tags == Database_get_tags_by_channel(t, channel_name(channel))
         IN IF tags = <<>> THEN replied(t, tags, "No tags in this channel.")
            ELSE replied(t, tags, format_tags_by_scene(tags, channel_name(channel)))

slash_get_tag(t, channel, tag_id, storage) ==
    IF storage = "unavailable" THEN raised(t)
    ELSE LET tag == Database_get_tag(t, tag_id)
         IN IF tag /= None THEN replied(t, tag, format_tag(tag[1]))
            ELSE replied(t, tag, "No tag found with ID " \o ToString(tag_id) \o ".")

slash_delete_tag(t, channel, tag_id, storage) ==
    IF storage = "unavailable" THEN raised(t)
    ELSE LET r == Database_delete_tag(t, tag_id)
         IN IF r.ret THEN replied(r.db, r.ret, "Deleted tag " \o ToString(tag_id) \o ".")
            ELSE replied(r.db, r.ret, "No tag found with ID " \o ToString(tag_id) \o ".")

slash_mod_status_level(t, channel, tag_id, level, storage) ==
    IF storage = "unavailable" THEN raised(t)
    ELSE LET r == Database_update_tag(t, tag_id, None, None, None, None, Some(level))
         IN IF r.ret /= None
            THEN replied(r.db, r.ret, "Updated tag:\n" \o format_tag(r.ret[1]))
            ELSE replied(r.db, r.ret, "No tag found with ID " \o ToString(tag_id) \o ".")

slash_mod_tag_name(t, channel, tag_id, name, storage) ==
    IF storage = "unavailable" THEN raised(t)
    ELSE LET r == Database_update_tag(t, tag_id, Some(name), None, None, None, None)
         IN IF r.ret /= None
            THEN replied(r.db, r.ret, "Updated tag:\n" \o format_tag(r.ret[1]))
            ELSE replied(r.db, r.ret, "No tag found with ID " \o ToString(tag_id) \o ".")

slash_clear_scene(t, channel, scene, storage) ==
    IF storage = "unavailable" THEN raised(t)
    ELSE LET r == Database_delete_tags_by_scene(t, channel_name(channel), scene)
             scene_display == IF scene /= None /\ scene[1] /= "" THEN scene[1]
                              ELSE "Default Scene"
         IN replied(r.db, r.ret,
                    "Cleared " \o ToString(r.ret) \o " tag(s) from **"
                    \o scene_display \o "**.")

-----------------------------------------------------------------------------
(* bot.py: error handling *)

\* what on_command_error sends for an error of a prefix command (the message
\* quotes the parameter name in backquotes, written here as ')
on_command_error(error) ==
    IF error.type = "MissingRequiredArgument"
    THEN <<"Missing argument: '" \o error.param \o "'">>
    ELSE IF error.type = "CommandNotFound" THEN <<>>
    ELSE <<"Error: " \o error.text>>

\* a prefix command: an exception of the handler goes to on_command_error
prefix_sent(o) == IF o.error = None THEN o.sent ELSE o.sent \o on_command_error(o.error[1])

\* a slash command: no error handler is registered on the command tree, an
\* exception of the handler is logged and nothing is sent
slash_sent(o) == o.sent

-----------------------------------------------------------------------------
(* The state machine *)

\* one operation: its name and arguments, the outcome o of the store call or
\* handler, the messages sent, the largest id issued so far
Step(name, r, o, sends, issued) ==
    /\ op' = name
    /\ req' = r
    /\ db' = o.db
    /\ ret' = o.ret
    /\ sent' = sends
    /\ maxIssued' = issued

issued_after(o) == IF o.ret.id > maxIssued THEN o.ret.id ELSE maxIssued

\* a store call that raises reads none of the request's arguments: one request
\* of each command stands for the requests that meet an unavailable store
first_channel == [name |-> Some("general"), id |-> 1]
fails_on(storage, channel, rest) ==
    storage = "unavailable" => (channel = first_channel /\ rest)

(* Database methods called directly, with arguments from the given sets *)

do_create_tag(names, channels, scenes, npcs, levels) ==
    \E name \in names, channel \in channels, scene \in scenes, npc \in npcs,
       level \in levels :
        \E o \in {Database_create_tag(db, name, channel, scene, npc, level)} :
              Step("Database.create_tag",
                   [name |-> name, channel |-> channel, scene |-> scene,
                    npc |-> npc, level |-> level],
                   o, <<>>, issued_after(o))

do_get_tag(ids) ==
    \E tag_id \in ids :
        Step("Database.get_tag", [tag_id |-> tag_id],
             [db |-> db, ret |-> Database_get_tag(db, tag_id)], <<>>, maxIssued)

do_get_tags_by_channel ==
    \E channel \in ChannelNames :
        Step("Database.get_tags_by_channel", [channel |-> channel],
             [db |-> db, ret |-> Database_get_tags_by_channel(db, channel)],
             <<>>, maxIssued)

do_update_tag(ids, names, channels, scenes, npcs, levels) ==
    \E tag_id \in ids, name \in names, channel \in channels,
       scene \in scenes, npc \in npcs, level \in levels :
        Step("Database.update_tag",
             [tag_id |-> tag_id, name |-> name, channel |-> channel,
              scene |-> scene, npc |-> npc, level |-> level],
             Database_update_tag(db, tag_id, name, channel, scene, npc, level),
             <<>>, maxIssued)

do_delete_tag(ids) ==
    \E tag_id \in ids :
        Step("Database.delete_tag", [tag_id |-> tag_id],
             Database_delete_tag(db, tag_id), <<>>, maxIssued)

do_delete_tags_by_scene(scenes) ==
    \E channel \in ChannelNames, scene \in scenes :
        Step("Database.delete_tags_by_scene", [channel |-> channel, scene |-> scene],
             Database_delete_tags_by_scene(db, channel, scene), <<>>, maxIssued)

do_get_all_tags ==
    Step("Database.get_all_tags", None,
         [db |-> db, ret |-> Database_get_all_tags(db)], <<>>, maxIssued)

(* Prefix commands *)

do_ping ==
    \E latency_ms \in LatencyMs :
        \E o \in {ping(db, latency_ms)} :
           Step("ping", None, o, prefix_sent(o), maxIssued)

\* !addtag <name> [scene] [npc] [level]: the arguments are positional, a later
\* one is given only when the earlier ones are
do_add_tag(names, scenes, npcs, levels) ==
    \E channel \in Channels, name \in names, scene \in scenes, npc \in npcs,
       level \in levels, storage \in Storage :
        /\ lastrowid(db) <= MaxId
        /\ npc /= None => scene /= None
        /\ level /= None => npc /= None
        /\ fails_on(storage, channel, name = "a" /\ scene = None)
        /\ \E o \in {add_tag(db, channel, name, scene, npc, level, storage)} :
              Step("add_tag",
                   [channel |-> channel, name |-> name, scene |-> scene,
                    npc |-> npc, level |-> level, storage |-> storage],
                   o, prefix_sent(o),
                   IF o.error = None THEN issued_after(o) ELSE maxIssued)

do_list_tags ==
    \E channel \in Channels, storage \in Storage :
        /\ fails_on(storage, channel, TRUE)
        /\ \E o \in {list_tags(db, channel, storage)} :
              Step("list_tags", [channel |-> channel, storage |-> storage],
                   o, prefix_sent(o), maxIssued)

do_get_tag_command(ids) ==
    \E channel \in Channels, tag_id \in ids, storage \in Storage :
        /\ fails_on(storage, channel, tag_id = 1)
        /\ \E o \in {get_tag(db, channel, tag_id, storage)} :
              Step("get_tag",
                   [channel |-> channel, tag_id |-> tag_id, storage |-> storage],
                   o, prefix_sent(o), maxIssued)

do_delete_tag_command(ids) ==
    \E channel \in Channels, tag_id \in ids, storage \in Storage :
        /\ fails_on(storage, channel, tag_id = 1)
        /\ \E o \in {delete_tag(db, channel, tag_id, storage)} :
              Step("delete_tag",
                   [channel |-> channel, tag_id |-> tag_id, storage |-> storage],
                   o, prefix_sent(o), maxIssued)

do_mod_status_level(ids, levels) ==
    \E channel \in Channels, tag_id \in ids, level \in levels, storage \in Storage :
        /\ fails_on(storage, channel, tag_id = 1)
        /\ \E o \in {mod_status_level(db, channel, tag_id, level, storage)} :
              Step("mod_status_level",
                   [channel |-> channel, tag_id |-> tag_id, level |-> level,
                    storage |-> storage],
                   o, prefix_sent(o), maxIssued)

do_mod_tag_name(ids, names) ==
    \E channel \in Channels, tag_id \in ids, name \in names, storage \in Storage :
        /\ fails_on(storage, channel, tag_id = 1)
        /\ \E o \in {mod_tag_name(db, channel, tag_id, name, storage)} :
              Step("mod_tag_name",
                   [channel |-> channel, tag_id |-> tag_id, name |-> name,
                    storage |-> storage],
                   o, prefix_sent(o), maxIssued)

do_clear_scene(scenes) ==
    \E channel \in Channels, scene \in scenes, storage \in Storage :
        /\ fails_on(storage, channel, scene = None)
        /\ \E o \in {clear_scene(db, channel, scene, storage)} :
              Step("clear_scene",
                   [channel |-> channel, scene |-> scene, storage |-> storage],
                   o, prefix_sent(o), maxIssued)

\* a prefix command given without a required argument: the handler does not
\* run, the dispatcher raises MissingRequiredArgument naming the parameter
RequiredParams ==
    {<<"addtag", "name">>, <<"tag", "tag_id">>, <<"deltag", "tag_id">>,
     <<"modstatuslevel", "tag_id">>, <<"modstatuslevel", "level">>,
     <<"modtagname", "tag_id">>, <<"modtagname", "name">>}

do_missing_argument ==
    \E p \in RequiredParams :
        Step("missing_argument", [command |-> p[1], param |-> p[2]],
             [db |-> db, ret |-> None],
             on_command_error([type |-> "MissingRequiredArgument", param |-> p[2]]),
             maxIssued)

\* a prefix message naming no command: CommandNotFound
do_unknown_command ==
    Step("unknown_command", None, [db |-> db, ret |-> None],
         on_command_error([type |-> "CommandNotFound"]), maxIssued)

(* Slash commands *)

do_slash_ping ==
    \E latency_ms \in LatencyMs :
        \E o \in {slash_ping(db, latency_ms)} :
           Step("slash_ping", None, o, slash_sent(o), maxIssued)

do_slash_add_tag(names, scenes, npcs, levels) ==
    \E channel \in Channels, name \in names, scene \in scenes, npc \in npcs,
       level \in levels, storage \in Storage :
        /\ lastrowid(db) <= MaxId
        /\ fails_on(storage, channel, name = "a" /\ scene = None /\ npc = None /\ level = None)
        /\ \E o \in {slash_add_tag(db, channel, name, scene, npc, level, storage)} :
              Step("slash_add_tag",
                   [channel |-> channel, name |-> name, scene |-> scene,
                    npc |-> npc, level |-> level, storage |-> storage],
                   o, slash_sent(o),
                   IF o.error = None THEN issued_after(o) ELSE maxIssued)

do_slash_list_tags ==
    \E channel \in Channels, storage \in Storage :
        /\ fails_on(storage, channel, TRUE)
        /\ \E o \in {slash_list_tags(db, channel, storage)} :
              Step("slash_list_tags", [channel |-> channel, storage |-> storage],
                   o, slash_sent(o), maxIssued)

do_slash_get_tag(ids) ==
    \E channel \in Channels, tag_id \in ids, storage \in Storage :
        /\ fails_on(storage, channel, tag_id = 1)
        /\ \E o \in {slash_get_tag(db, channel, tag_id, storage)} :
              Step("slash_get_tag",
                   [channel |-> channel, tag_id |-> tag_id, storage |-> storage],
                   o, slash_sent(o), maxIssued)

do_slash_delete_tag(ids) ==
    \E channel \in Channels, tag_id \in ids, storage \in Storage :
        /\ fails_on(storage, channel, tag_id = 1)
        /\ \E o \in {slash_delete_tag(db, channel, tag_id, storage)} :
              Step("slash_delete_tag",
                   [channel |-> channel, tag_id |-> tag_id, storage |-> storage],
                   o, slash_sent(o), maxIssued)

do_slash_mod_status_level(ids, levels) ==
    \E channel \in Channels, tag_id \in ids, level \in levels, storage \in Storage :
        /\ fails_on(storage, channel, tag_id = 1)
        /\ \E o \in {slash_mod_status_level(db, channel, tag_id, level, storage)} :
              Step("slash_mod_status_level",
                   [channel |-> channel, tag_id |-> tag_id, level |-> level,
                    storage |-> storage],
                   o, slash_sent(o), maxIssued)

do_slash_mod_tag_name(ids, names) ==
    \E channel \in Channels, tag_id \in ids, name \in names, storage \in Storage :
        /\ fails_on(storage, channel, tag_id = 1)
        /\ \E o \in {slash_mod_tag_name(db, channel, tag_id, name, storage)} :
              Step("slash_mod_tag_name",
                   [channel |-> channel, tag_id |-> tag_id, name |-> name,
                    storage |-> storage],
                   o, slash_sent(o), maxIssued)

do_slash_clear_scene(scenes) ==
    \E channel \in Channels, scene \in scenes, storage \in Storage :
        /\ fails_on(storage, channel, scene = None)
        /\ \E o \in {slash_clear_scene(db, channel, scene, storage)} :
              Step("slash_clear_scene",
                   [channel |-> channel, scene |-> scene, storage |-> storage],
                   o, slash_sent(o), maxIssued)

-----------------------------------------------------------------------------
(* Spec: the bot run from the empty table, commands of both surfaces.  Tags *)
(* are created without scene and NPC here; SpecStore and SpecList draw      *)
(* tables with those fields set.                                            *)

TagIds == 1 .. MaxId
Unset == {None}
ClearScenes == {None, Some("general")}

Init ==
    /\ db = init_db
    /\ maxIssued = 0
    /\ op = "init"
    /\ req = None
    /\ ret = None
    /\ sent = <<>>

\* the model allocates no rowid above MaxId
room == lastrowid(db) <= MaxId

Prefix_ping == do_ping
Prefix_addtag == room /\ do_add_tag({"a"}, Unset, Unset, Levels)
Prefix_tags == do_list_tags
Prefix_tag == do_get_tag_command(TagIds)
Prefix_deltag == do_delete_tag_command(TagIds)
Prefix_modstatuslevel == do_mod_status_level(TagIds, NewLevels)
Prefix_modtagname == do_mod_tag_name(TagIds, NewNames)
Prefix_wipescene == do_clear_scene(ClearScenes)
Prefix_missing_argument == do_missing_argument
Prefix_unknown_command == do_unknown_command
Slash_ping == do_slash_ping
Slash_addtag == room /\ do_slash_add_tag({"a"}, Unset, Unset, Levels)
Slash_tags == do_slash_list_tags
Slash_tag == do_slash_get_tag(TagIds)
Slash_deltag == do_slash_delete_tag(TagIds)
Slash_modstatuslevel == do_slash_mod_status_level(TagIds, NewLevels)
Slash_modtagname == do_slash_mod_tag_name(TagIds, NewNames)
Slash_clearscene == do_slash_clear_scene(ClearScenes)

Next ==
    \/ Prefix_ping
    \/ Prefix_addtag
    \/ Prefix_tags
    \/ Prefix_tag
    \/ Prefix_deltag
    \/ Prefix_modstatuslevel
    \/ Prefix_modtagname
    \/ Prefix_wipescene
    \/ Prefix_missing_argument
    \/ Prefix_unknown_command
    \/ Slash_ping
    \/ Slash_addtag
    \/ Slash_tags
    \/ Slash_tag
    \/ Slash_deltag
    \/ Slash_modstatuslevel
    \/ Slash_modtagname
    \/ Slash_clearscene

Spec == Init /\ [][Next]_vars

-----------------------------------------------------------------------------
(* SpecStore: one Database method, or one command that updates or clears,   *)
(* applied to a table of up to MaxStored tags with every field set or unset *)

\* tags of the channel "general" with every field set or unset, and tags of
\* the channel "7" with each scene
StoredRows ==
    {bind_row("a", "general", scene, npc, level) :
        scene \in Scenes, npc \in Npcs, level \in Levels}
    \cup {bind_row("a", "7", scene, None, None) : scene \in Scenes}

\* the tables create_tag builds from the empty one: rowids 1 .. n
tables(rows, limit) == UNION {[1 .. n -> rows] : n \in 0 .. limit}

InitStore ==
    /\ db \in tables(StoredRows, MaxStored)
    /\ maxIssued = Cardinality(DOMAIN db)
    /\ op = "init"
    /\ req = None
    /\ ret = None
    /\ sent = <<>>

\* the ids of the drawn table and one more, which has no record
StoredIds == 1 .. MaxStored + 1
Omittable(S) == {None} \cup {Some(x) : x \in S}

Store_create_tag == do_create_tag(Names, ChannelNames, Scenes, Npcs, Levels)
Store_get_tag == do_get_tag(StoredIds)
Store_get_tags_by_channel == do_get_tags_by_channel
Store_update_tag ==
    do_update_tag(StoredIds, Omittable(NewNames), Omittable({"7"}), Scenes, Npcs, Levels)
Store_delete_tag == do_delete_tag(StoredIds)
Store_delete_tags_by_scene == do_delete_tags_by_scene(Scenes)
Store_get_all_tags == do_get_all_tags
Store_modstatuslevel == do_mod_status_level(StoredIds, NewLevels)
Store_modtagname == do_mod_tag_name(StoredIds, NewNames)
Store_wipescene == do_clear_scene(ClearScenes)
Store_slash_modstatuslevel == do_slash_mod_status_level(StoredIds, NewLevels)
Store_slash_modtagname == do_slash_mod_tag_name(StoredIds, NewNames)
Store_slash_clearscene == do_slash_clear_scene(ClearScenes)

NextStore ==
    \/ op = "init" /\ Store_create_tag
    \/ op = "init" /\ Store_get_tag
    \/ op = "init" /\ Store_get_tags_by_channel
    \/ op = "init" /\ Store_update_tag
    \/ op = "init" /\ Store_delete_tag
    \/ op = "init" /\ Store_delete_tags_by_scene
    \/ op = "init" /\ Store_get_all_tags
    \/ op = "init" /\ Store_modstatuslevel
    \/ op = "init" /\ Store_modtagname
    \/ op = "init" /\ Store_wipescene
    \/ op = "init" /\ Store_slash_modstatuslevel
    \/ op = "init" /\ Store_slash_modtagname
    \/ op = "init" /\ Store_slash_clearscene

SpecStore == InitStore /\ [][NextStore]_vars

-----------------------------------------------------------------------------
(* SpecList: one listing of a channel, applied to a table of up to MaxRows  *)
(* tags spread over scenes and NPCs                                         *)

ListScenes == {None, Some("general"), Some("Cave")}
ListNpcs == {None, Some("Bob"), Some("Zed")}

\* tags of the channel "general" in every scene and under every NPC, and tags
\* of the channel "7" without NPC
ListedRows ==
    {bind_row("a", "general", scene, npc, None) :
        scene \in ListScenes, npc \in ListNpcs}
    \cup {bind_row("a", "7", scene, None, None) : scene \in {None, Some("Cave")}}

InitList ==
    /\ db \in tables(ListedRows, MaxRows)
    /\ maxIssued = Cardinality(DOMAIN db)
    /\ op = "init"
    /\ req = None
    /\ ret = None
    /\ sent = <<>>

List_get_tags_by_channel == do_get_tags_by_channel
List_tags == do_list_tags
List_slash_tags == do_slash_list_tags

NextList ==
    \/ op = "init" /\ List_get_tags_by_channel
    \/ op = "init" /\ List_tags
    \/ op = "init" /\ List_slash_tags

SpecList == InitList /\ [][NextList]_vars

-----------------------------------------------------------------------------
(* Properties *)

Creates == {"add_tag", "slash_add_tag"}
Deletes == {"delete_tag", "slash_delete_tag"}
Clears == {"clear_scene", "slash_clear_scene"}
Lists == {"list_tags", "slash_list_tags"}
Gets == {"get_tag", "slash_get_tag"}
LevelMods == {"mod_status_level", "slash_mod_status_level"}
NameMods == {"mod_tag_name", "slash_mod_tag_name"}
StoreCommands == Creates \cup Deletes \cup Clears \cup Lists \cup Gets \cup LevelMods \cup NameMods

\* the last operation was the command o, and its store call went through
ran(o, r, names) == o \in names /\ r.storage = "ok"

not_found(tag_id) == "No tag found with ID " \o ToString(tag_id) \o "."

\* C1: every id create_tag returns is strictly greater than every id it
\* returned before, so no id is assigned twice, also after the tag holding the
\* highest id was deleted.
C1_IdsNeverReused ==
    [][ran(op', req', Creates) => ret'.id > maxIssued]_vars

\* C2: right after create_tag, get_tag of the returned id returns a record
\* equal, field for field, to the record create_tag returned and to the
\* arguments it was given.
C2_CreateGetRoundTrip ==
    op = "Database.create_tag" =>
        /\ Database_get_tag(db, ret.id) = Some(ret)
        /\ ret.name = req.name
        /\ ret.channel = req.channel
        /\ ret.scene = req.scene
        /\ ret.npc = req.npc
        /\ ret.level = req.level

C2_Witness ==
    /\ op = "Database.create_tag"
    /\ ret.id = 2
    /\ req.scene = Some("")
    /\ req.npc = None
    /\ req.level = Some(0)

\* the columns of record i agree in s and t, except those in changed
same_but(s, t, i, changed) ==
    /\ "name" \in changed \/ s[i].name = t[i].name
    /\ "channel" \in changed \/ s[i].channel = t[i].channel
    /\ "scene" \in changed \/ s[i].scene = t[i].scene
    /\ "npc" \in changed \/ s[i].npc = t[i].npc
    /\ "level" \in changed \/ s[i].level = t[i].level

\* the records other than i are the same in s and t
others_same(s, t, i) ==
    /\ DOMAIN s = DOMAIN t
    /\ \A j \in DOMAIN s \ {i} : s[j] = t[j]

\* C3: update_tag on an existing id sets the supplied fields to the supplied
\* values and leaves every omitted field of that tag, the tag's id and every
\* other tag as they were; modstatuslevel changes only level and modtagname
\* changes only name.
C3_UpdateFrame ==
    [][/\ (op' = "Database.update_tag" /\ req'.tag_id \in DOMAIN db) =>
            LET i == req'.tag_id
                supplied == {f \in {"name", "channel", "scene", "npc", "level"} :
                                req'[f] /= None}
                new == Database_get_tag(db', i)[1]
            IN /\ others_same(db, db', i)
               /\ same_but(db, db', i, supplied)
               /\ new.id = i
               /\ ret' = Some(new)
               /\ "name" \in supplied => new.name = req'.name[1]
               /\ "channel" \in supplied => new.channel = req'.channel[1]
               /\ "scene" \in supplied => new.scene = req'.scene
               /\ "npc" \in supplied => new.npc = req'.npc
               /\ "level" \in supplied => new.level = req'.level
       /\ (ran(op', req', LevelMods) /\ req'.tag_id \in DOMAIN db) =>
            /\ others_same(db, db', req'.tag_id)
            /\ same_but(db, db', req'.tag_id, {"level"})
            /\ Database_get_tag(db', req'.tag_id)[1].level = Some(req'.level)
       /\ (ran(op', req', NameMods) /\ req'.tag_id \in DOMAIN db) =>
            /\ others_same(db, db', req'.tag_id)
            /\ same_but(db, db', req'.tag_id, {"name"})
            /\ Database_get_tag(db', req'.tag_id)[1].name = req'.name
      ]_vars

C3_Witness ==
    /\ op = "Database.update_tag"
    /\ ret /= None
    /\ Cardinality(DOMAIN db) = 2
    /\ req.name = None /\ req.channel = None /\ req.npc = None
    /\ req.scene = Some("")
    /\ req.level = Some(0)
    /\ ret[1].npc = Some("Bob")

\* C4: delete_tag returns true exactly when a record with the id existed and
\* removes that record only; right afterwards get_tag of the id finds nothing;
\* no operation but a create adds a record, so a second delete_tag of the id
\* with no create in between returns false and leaves the store unchanged.
C4_DeleteTag ==
    [][/\ ran(op', req', Deletes) =>
            /\ ret' = (req'.tag_id \in DOMAIN db)
            /\ db' = without(db, {req'.tag_id})
            /\ Database_get_tag(db', req'.tag_id) = None
            /\ (ran(op, req, Deletes) /\ req.tag_id = req'.tag_id) =>
                   (ret' = FALSE /\ db' = db)
       /\ ~ ran(op', req', Creates) => DOMAIN db' \subseteq DOMAIN db
      ]_vars

C4_Witness ==
    /\ ran(op, req, Deletes)
    /\ ret = FALSE
    /\ req.tag_id <= maxIssued
    /\ DOMAIN db /= {}

\* the tags of the channel whose scene is the given one (None: no scene)
in_scene_of(t, channel, scene) ==
    {i \in DOMAIN t : /\ Database_get_tag(t, i)[1].channel = channel
                      /\ Database_get_tag(t, i)[1].scene = scene}

\* C5: delete_tags_by_scene(channel, scene) removes exactly the tags of the
\* channel whose scene is unset when scene is absent, or equals the given string
\* when it is given: no tag of another channel, no tag with a set scene (the
\* empty string and the channel's own name included) when scene is absent; it
\* returns the number of records removed.
C5_DeleteByScene ==
    [][/\ op' = "Database.delete_tags_by_scene" =>
            /\ db' = without(db, in_scene_of(db, req'.channel, req'.scene))
            /\ ret' = Cardinality(DOMAIN db) - Cardinality(DOMAIN db')
       /\ ran(op', req', Clears) =>
            /\ db' = without(db, in_scene_of(db, channel_name(req'.channel), req'.scene))
            /\ ret' = Cardinality(DOMAIN db) - Cardinality(DOMAIN db')
      ]_vars

C5_Witness ==
    /\ op = "Database.delete_tags_by_scene"
    /\ req.scene = None
    /\ ret = 1
    /\ \E i \in DOMAIN db :
          /\ Database_get_tag(db, i)[1].channel = req.channel
          /\ Database_get_tag(db, i)[1].scene = Some("")

\* C6: update_tag on an id without a record returns None and leaves the store
\* as it was, and modstatuslevel / modtagname answer "No tag found".
C6_UpdateMissing ==
    [][(ran(op', req', LevelMods \cup NameMods) /\ req'.tag_id \notin DOMAIN db) =>
            /\ ret' = None
            /\ db' = db
            /\ sent' = <<not_found(req'.tag_id)>>
      ]_vars

C6_Witness ==
    /\ ran(op, req, LevelMods \cup NameMods)
    /\ ret = None
    /\ sent = <<not_found(req.tag_id)>>
    /\ DOMAIN db /= {}

\* C7: every request of a known command, on either surface, ends with exactly
\* one message sent, also when an argument is missing or the store call fails.
C7_OneResponse ==
    op \in StoreCommands \cup {"ping", "slash_ping", "missing_argument"} =>
        Len(sent) = 1

\* the sub-groups of the listing that hold the tag, as <<scene, npc>> labels
placed(groups, tag) ==
    {<<groups[i].scene_name, groups[i].npcs[j].npc_name>> :
        <<i, j>> \in {<<i, j>> \in (DOMAIN groups) \X (1 .. MaxRows + 1) :
                        /\ j \in DOMAIN groups[i].npcs
                        /\ \E k \in DOMAIN groups[i].npcs[j].npc_tags :
                              groups[i].npcs[j].npc_tags[k] = tag}}

\* how often the tag is listed
times_listed(groups, tag) ==
    Cardinality({<<i, j, k>> \in (DOMAIN groups) \X (1 .. MaxRows + 1) \X (1 .. MaxRows + 1) :
                    /\ j \in DOMAIN groups[i].npcs
                    /\ k \in DOMAIN groups[i].npcs[j].npc_tags
                    /\ groups[i].npcs[j].npc_tags[k] = tag})

\* C8: the listing shows every tag of the channel once, under the group of its
\* stored scene (the channel name when unset) and the sub-group of its stored
\* npc ("Story Tags" when unset); a tag with a set scene is never in one group
\* with the tags without scene; "No tags" is sent exactly for an empty channel.
C8_Grouping ==
    ran(op, req, Lists) =>
        LET channel == channel_name(req.channel)
            tags == Database_get_tags_by_channel(db, channel)
            groups == by_scene(tags, channel)
            scene_of(tag) == IF tag.scene = None THEN channel ELSE tag.scene[1]
            npc_of(tag) == IF tag.npc = None THEN "Story Tags" ELSE tag.npc[1]
        IN /\ (sent = <<"No tags in this channel.">>) <=> (tags = <<>>)
           /\ tags /= <<>> => sent = <<format_tags_by_scene(tags, channel)>>
           /\ \A n \in DOMAIN tags :
                 /\ times_listed(groups, tags[n]) = 1
                 /\ placed(groups, tags[n]) = {<<scene_of(tags[n]), npc_of(tags[n])>>}
           /\ \A m, n \in DOMAIN tags :
                 (tags[m].scene /= None /\ tags[n].scene = None) =>
                     \A a \in placed(groups, tags[m]), b \in placed(groups, tags[n]) :
                         a[1] /= b[1]

\* the place in the store's answer of the first tag shown in the scene group
first_of(tags, channel, scene_name) ==
    CHOOSE n \in DOMAIN tags :
        /\ scene_label(tags[n], channel) = scene_name
        /\ \A m \in 1 .. n - 1 : scene_label(tags[m], channel) /= scene_name

\* the place of a tag in the store's answer
place_of(tags, tag) == CHOOSE n \in DOMAIN tags : tags[n] = tag

\* C9: the listing shows the scene groups in the order the store returned their
\* first tags; in a scene group "Story Tags" first when present, then the other
\* NPC sub-groups in ascending order of name; in a sub-group the tags in the
\* order the store returned them.
C9_ListingOrder ==
    (ran(op, req, Lists) /\ ret /= <<>>) =>
        LET channel == channel_name(req.channel)
            groups == by_scene(ret, channel)
        IN /\ sent = <<format_tags_by_scene(ret, channel)>>
           /\ \A i, j \in DOMAIN groups :
                 i < j => first_of(ret, channel, groups[i].scene_name)
                             < first_of(ret, channel, groups[j].scene_name)
           /\ \A i \in DOMAIN groups :
                 LET npcs == groups[i].npcs
                 IN /\ \A j \in DOMAIN npcs :
                          npcs[j].npc_name = "Story Tags" => j = 1
                    /\ \A j, k \in DOMAIN npcs :
                          (j < k /\ npcs[j].npc_name /= "Story Tags") =>
                              str_less(npcs[j].npc_name, npcs[k].npc_name)
                    /\ \A j \in DOMAIN npcs :
                          \A a, b \in DOMAIN npcs[j].npc_tags :
                              a < b => place_of(ret, npcs[j].npc_tags[a])
                                         < place_of(ret, npcs[j].npc_tags[b])

C9_Witness ==
    /\ ran(op, req, Lists)
    /\ Len(ret) = 3
    /\ LET groups == by_scene(ret, channel_name(req.channel))
       IN /\ Len(groups) = 1
          /\ Len(groups[1].npcs) = 3
          /\ groups[1].npcs[1].npc_name = "Story Tags"
          /\ ret[1].npc = Some("Zed")
          /\ ret[2].npc = Some("Bob")

\* what the id-keyed command of the name answers in the channel
id_keyed(o, t, channel, r) ==
    CASE o = "get_tag" -> get_tag(t, channel, r.tag_id, "ok")
      [] o = "slash_get_tag" -> slash_get_tag(t, channel, r.tag_id, "ok")
      [] o = "delete_tag" -> delete_tag(t, channel, r.tag_id, "ok")
      [] o = "slash_delete_tag" -> slash_delete_tag(t, channel, r.tag_id, "ok")
      [] o = "mod_status_level" -> mod_status_level(t, channel, r.tag_id, r.level, "ok")
      [] o = "slash_mod_status_level" ->
            slash_mod_status_level(t, channel, r.tag_id, r.level, "ok")
      [] o = "mod_tag_name" -> mod_tag_name(t, channel, r.tag_id, r.name, "ok")
      [] o = "slash_mod_tag_name" -> slash_mod_tag_name(t, channel, r.tag_id, r.name, "ok")

\* C10: tag, deltag, modstatuslevel and modtagname, invoked in any other channel
\* on the same store with the same arguments, answer the same and leave the
\* same store as in the channel they were invoked in, so a tag of one channel is
\* read, changed and deleted from another; addtag creates in the invoking
\* channel, tags lists and wipescene / clearscene clears that channel only.
C10_ChannelIndependence ==
    [][/\ ran(op', req', Gets \cup Deletes \cup LevelMods \cup NameMods) =>
            \A channel \in Channels \ {req'.channel} :
                \E o \in {id_keyed(op', db, channel, req')} :
                    o.db = db' /\ o.sent = sent'
       /\ ran(op', req', Creates) =>
            Database_get_tag(db', ret'.id)[1].channel = channel_name(req'.channel)
       /\ ran(op', req', Lists) =>
            /\ \A n \in DOMAIN ret' : ret'[n].channel = channel_name(req'.channel)
            /\ Len(ret') = Cardinality({i \in DOMAIN db :
                   Database_get_tag(db, i)[1].channel = channel_name(req'.channel)})
       /\ ran(op', req', Clears) =>
            \A i \in DOMAIN db \ DOMAIN db' :
                Database_get_tag(db, i)[1].channel = channel_name(req'.channel)
      ]_vars

C10_Witness ==
    /\ ran(op, req, NameMods)
    /\ ret /= None
    /\ ret[1].channel /= channel_name(req.channel)
    /\ ret[1].name = "b"
    /\ Database_get_tag(db, req.tag_id) = ret

====
